---- MODULE Spec2Model ----
(***************************************************************************)
(* State-machine model of ompl::base::WeightedGoalRegionSampler            *)
(* (weighted_goal_region_sampler.cpp) and of its near-duplicate            *)
(* ompl::base::WeightedGoalRegionSamples (weighted_goal_region_samples.cpp)*)
(* which is the same class without the roadmap-growing thread.             *)
(*                                                                         *)
(* Threads: one planner thread (the controlling owner, which also calls    *)
(* penalize / reward / sample), the goal sampling thread and the roadmap   *)
(* growing thread.  Every step below is one statement, or one critical     *)
(* section of lock_, of the C++ code.                                      *)
(*                                                                         *)
(* Weights are doubles in the code; they are modelled as exact rationals   *)
(* <<numerator, denominator>>.  States are points on a line, in units of   *)
(* 0.5, with the distance |a - b|.                                         *)
(***************************************************************************)
EXTENDS Integers, Sequences, FiniteSets, TLC

VARIABLES
  states_,                        \* GoalStates::states_ : the goal store
  goals_priority_queue_,          \* heap entries, indexed by their handle
  terminateSamplingThread_,
  terminateGrowingRoadmapThread_,
  samplingThread_,                \* TRUE iff the pointer is not nullptr
  growingRoadmapThread_,          \* TRUE iff the pointer is not nullptr
  samplingAttempts_,
  max_sampled_goals_,
  sample_goals_,
  num_sampled_goals_,
  samplerFunc_,                   \* TRUE iff a sampling function was given
  callback_,                      \* TRUE iff a new-state callback is set
  lock_,                          \* owner of lock_ : "free" or a thread
  isSetup,                        \* si_->isSetup()
  threads,                        \* std::thread objects alive, per worker
  spc,                            \* position of goalSamplingThread
  sampled_states,                 \* its local vector, the part not yet visited
  increase_num_sampled_goals,     \* its local flag
  prevsa,                         \* its local prevsa
  rpc,                            \* position of roadmapGrowingThread
  ppc,                            \* position of the planner thread
  newState,                       \* addStateIfDifferent's local: 0 is nullptr
  added,                          \* addStateIfDifferent's local
  args,                           \* addStateIfDifferent's <<st, minDistance>>
  weightCalls,                    \* the planner's penalize and reward calls so far
  ret,                            \* what the planner's last call returned
  callbackCalls                   \* calls made to the new-state callback

vars == <<states_, goals_priority_queue_, terminateSamplingThread_,
          terminateGrowingRoadmapThread_, samplingThread_, growingRoadmapThread_,
          samplingAttempts_, max_sampled_goals_, sample_goals_, num_sampled_goals_,
          samplerFunc_, callback_, lock_, isSetup, threads, spc, sampled_states,
          increase_num_sampled_goals, prevsa, rpc, ppc, newState, added, args, weightCalls,
          ret, callbackCalls>>

----------------------------------------------------------------------------
(* Bounds of the model *)

MaxBatch == 2      \* candidates the sampling function yields in one call
MaxGoals == 2      \* goals the store, and the queue, may hold
MaxTarget == 2     \* the sampling target given to the constructor
MaxSampled == 4    \* candidates the sampling thread accepts in all
MaxPenal == 6      \* penalize is explored on weights >= 1/MaxPenal
MaxCalls == 2      \* calls of the new-state callback that are explored
ScenarioTarget == 5  \* the target of the scenario of SpecScenario
ScenarioBatch == 3   \* the candidates its sampling function yields per call

(* Program constants *)

TargetIncrement == 10
ResetWeight == <<1, 2>>
ResetThreshold == <<1, 5>>
One == <<1, 1>>

----------------------------------------------------------------------------
(* Weights: exact rationals <<n, d>> with n, d > 0 *)

Less(a, b) == a[1] * b[2] < b[1] * a[2]

\* the slip w * (w + 1.)
Penalized_Times(w) == <<w[1] * (w[1] + w[2]), w[2] * w[2]>>

\* w / (w + 1.)
Penalized(w) == <<w[1], w[1] + w[2]>>

\* the reward without its clamp
Rewarded_NoClamp(w) == <<w[1], w[2] - w[1]>>

\* new_w = w / (1. - w), clamped to 1.0; only evaluated when w < 1.0
Rewarded(w) ==
  LET new_w == <<w[1], w[2] - w[1]>>
  IN  IF Less(One, new_w) THEN One ELSE new_w

(* States and the distance of the state space *)

Positions == {0, 1, 4}
Infinity == 1000

Abs(x) == IF x < 0 THEN -x ELSE x

Min(a, b) == IF a < b THEN a ELSE b

SetMin(S) == CHOOSE x \in S : \A y \in S : x <= y

\* GoalStates::distanceGoal(st): the distance to the nearest goal of the
\* store, infinity when the store is empty
distanceGoal(st) ==
  IF states_ = <<>> THEN Infinity
  ELSE SetMin({Abs(st - states_[i]) : i \in 1..Len(states_)})

\* the read-only snapshots, each taken under lock_
getStateCount == Len(states_)

hasStates == Len(states_) > 0

isSampling == ~terminateSamplingThread_ /\ samplingThread_

isGrowingRoadmap == ~terminateGrowingRoadmapThread_ /\ growingRoadmapThread_

\* BinaryHeap::top(): an entry no other entry is preferred to (ties are
\* broken arbitrarily); 0 stands for the null pointer of an empty heap
TopHandles ==
  IF goals_priority_queue_ = <<>> THEN {0}
  ELSE {h \in 1..Len(goals_priority_queue_) :
          \A k \in 1..Len(goals_priority_queue_) :
            ~Less(goals_priority_queue_[h].weight_, goals_priority_queue_[k].weight_)}

\* the candidates a call of the sampling function may yield: a state, what
\* si_->satisfiesBounds and si_->isValid say of it, and the weight the
\* function gives its queue entry
Candidates(positions, oracles, weights) ==
  {[state_ |-> p, inBounds |-> o[1], valid |-> o[2], weight_ |-> w] :
     p \in positions, o \in oracles, w \in weights}

\* the sizes of the batches explored: the store and the queue stay within
\* MaxGoals and num_sampled_goals_ within MaxSampled
BatchSizes ==
  0..Min(Min(MaxBatch, MaxSampled - num_sampled_goals_),
         Min(MaxGoals - Len(states_), MaxGoals - Len(goals_priority_queue_)))

Batches(positions, oracles, weights) ==
  UNION {[1..n -> Candidates(positions, oracles, weights)] : n \in BatchSizes}

Oracles == {<<TRUE, TRUE>>, <<TRUE, FALSE>>, <<FALSE, TRUE>>}

\* the weights the sampling function gives to new queue entries
InitWeights == {<<2, 3>>}

Void == [kind |-> "void", val |-> 0]

----------------------------------------------------------------------------
(* Construction *)

Init ==
  /\ states_ = <<>>
  /\ goals_priority_queue_ = <<>>
  /\ terminateSamplingThread_ = FALSE
  /\ terminateGrowingRoadmapThread_ = FALSE
  /\ samplingThread_ = FALSE
  /\ growingRoadmapThread_ = FALSE
  /\ samplingAttempts_ = 0
  /\ max_sampled_goals_ = MaxTarget
  /\ sample_goals_ = TRUE
  /\ num_sampled_goals_ = 0
  /\ samplerFunc_ \in BOOLEAN
  /\ callback_ = FALSE
  /\ lock_ = "free"
  /\ isSetup \in BOOLEAN
  /\ threads = [sampling |-> 0, growing |-> 0]
  /\ spc = "none"
  /\ sampled_states = <<>>
  /\ increase_num_sampled_goals = FALSE
  /\ prevsa = 0
  /\ rpc = "none"
  /\ ppc = "idle"
  /\ newState = 0
  /\ added = FALSE
  /\ args = <<>>
  /\ weightCalls = <<>>
  /\ ret = Void
  /\ callbackCalls = 0

----------------------------------------------------------------------------
(* goalSamplingThread *)

shared == <<states_, goals_priority_queue_, terminateSamplingThread_,
            terminateGrowingRoadmapThread_, samplingThread_, growingRoadmapThread_,
            samplingAttempts_, max_sampled_goals_, sample_goals_, num_sampled_goals_,
            samplerFunc_, callback_, lock_, isSetup, threads>>

plannerVars == <<ppc, newState, added, args, weightCalls, ret, callbackCalls>>

growingVars == <<rpc>>

\* a thread that does not test si_->isSetup() before it begins
W_Barrier_NoSetupTest ==
  /\ spc = "barrier"
  /\ lock_ = "free"
  /\ spc' = "begin"
  /\ UNCHANGED <<shared, plannerVars, growingVars, sampled_states,
                 increase_num_sampled_goals, prevsa>>

\* wait for startSampling() to release lock_, then test si_->isSetup()
W_Barrier ==
  /\ spc = "barrier"
  /\ lock_ = "free"
  /\ spc' = IF isSetup THEN "begin" ELSE "wait"
  /\ UNCHANGED <<shared, plannerVars, growingVars, sampled_states,
                 increase_num_sampled_goals, prevsa>>

\* a wait loop that tests si_->isSetup() only
W_Wait_SetupOnly ==
  /\ spc = "wait"
  /\ isSetup
  /\ spc' = "begin"
  /\ UNCHANGED <<shared, plannerVars, growingVars, sampled_states,
                 increase_num_sampled_goals, prevsa>>

\* while (!terminateSamplingThread_ && !si_->isSetup()) sleep
W_Wait ==
  /\ spc = "wait"
  /\ terminateSamplingThread_ \/ isSetup
  /\ spc' = "begin"
  /\ UNCHANGED <<shared, plannerVars, growingVars, sampled_states,
                 increase_num_sampled_goals, prevsa>>

\* prevsa = samplingAttempts_; if (isSampling() && samplerFunc_)
W_Begin ==
  /\ spc = "begin"
  /\ lock_ = "free"
  /\ prevsa' = samplingAttempts_
  /\ spc' = IF isSampling /\ samplerFunc_ THEN "loop" ELSE "exit"
  /\ UNCHANGED <<shared, plannerVars, growingVars, sampled_states,
                 increase_num_sampled_goals>>

\* while (isSampling())
W_Loop ==
  /\ spc = "loop"
  /\ lock_ = "free"
  /\ spc' = IF isSampling THEN "check" ELSE "exit"
  /\ UNCHANGED <<shared, plannerVars, growingVars, sampled_states,
                 increase_num_sampled_goals, prevsa>>

\* a thread that leaves its loop when the target is reached
W_Check_ExitAtTarget ==
  /\ spc = "check"
  /\ spc' = IF num_sampled_goals_ < max_sampled_goals_ THEN "sample" ELSE "exit"
  /\ UNCHANGED <<shared, plannerVars, growingVars, sampled_states,
                 increase_num_sampled_goals, prevsa>>

\* if (num_sampled_goals_ < max_sampled_goals_)
W_Check ==
  /\ spc = "check"
  /\ spc' = IF num_sampled_goals_ < max_sampled_goals_ THEN "sample" ELSE "loop"
  /\ UNCHANGED <<shared, plannerVars, growingVars, sampled_states,
                 increase_num_sampled_goals, prevsa>>

\* what the sampling function does to the queue: one entry per state it
\* yields, holding the state and its weight
SamplerInsert(batch) ==
  goals_priority_queue_ \o
    [i \in 1..Len(batch) |-> [state_ |-> batch[i].state_, weight_ |-> batch[i].weight_]]

\* samplerFunc_(this, sampled_states); increase_num_sampled_goals = false
W_Sample(batch) ==
  /\ spc = "sample"
  /\ sampled_states' = batch
  /\ goals_priority_queue_' = SamplerInsert(batch)
  /\ increase_num_sampled_goals' = FALSE
  /\ spc' = "for"
  /\ UNCHANGED <<states_, terminateSamplingThread_, terminateGrowingRoadmapThread_,
                 samplingThread_, growingRoadmapThread_, samplingAttempts_,
                 max_sampled_goals_, sample_goals_, num_sampled_goals_, samplerFunc_,
                 callback_, lock_, isSetup, threads, plannerVars, growingVars, prevsa>>

\* one turn of the for loop up to the lock_guard: the two oracles, the flag
\* and ++num_sampled_goals_
W_For ==
  /\ spc = "for"
  /\ IF sampled_states = <<>>
       THEN /\ spc' = "after"
            /\ UNCHANGED <<sampled_states, increase_num_sampled_goals,
                           num_sampled_goals_>>
       ELSE IF Head(sampled_states).inBounds /\ Head(sampled_states).valid
         THEN /\ increase_num_sampled_goals' = TRUE
              /\ num_sampled_goals_' = num_sampled_goals_ + 1
              /\ spc' = "add"
              /\ UNCHANGED sampled_states
         ELSE /\ sampled_states' = Tail(sampled_states)
              /\ UNCHANGED <<spc, increase_num_sampled_goals, num_sampled_goals_>>
  /\ UNCHANGED <<states_, goals_priority_queue_, terminateSamplingThread_,
                 terminateGrowingRoadmapThread_, samplingThread_,
                 growingRoadmapThread_, samplingAttempts_, max_sampled_goals_,
                 sample_goals_, samplerFunc_, callback_, lock_, isSetup, threads,
                 plannerVars, growingVars, prevsa>>

\* lock_guard slock(lock_); GoalStates::addState(sampled_state);
W_Add ==
  /\ spc = "add"
  /\ lock_ = "free"
  /\ states_' = Append(states_, Head(sampled_states).state_)
  /\ sampled_states' = Tail(sampled_states)
  /\ spc' = "for"
  /\ UNCHANGED <<goals_priority_queue_, terminateSamplingThread_,
                 terminateGrowingRoadmapThread_, samplingThread_,
                 growingRoadmapThread_, samplingAttempts_, max_sampled_goals_,
                 sample_goals_, num_sampled_goals_, samplerFunc_, callback_, lock_,
                 isSetup, threads, plannerVars, growingVars,
                 increase_num_sampled_goals, prevsa>>

\* if (num_sampled_goals_ >= max_sampled_goals_) sample_goals_ = false;
W_After ==
  /\ spc = "after"
  /\ sample_goals_' = IF num_sampled_goals_ >= max_sampled_goals_ THEN FALSE
                      ELSE sample_goals_
  /\ spc' = "attempts"
  /\ UNCHANGED <<states_, goals_priority_queue_, terminateSamplingThread_,
                 terminateGrowingRoadmapThread_, samplingThread_,
                 growingRoadmapThread_, samplingAttempts_, max_sampled_goals_,
                 num_sampled_goals_, samplerFunc_, callback_, lock_, isSetup, threads,
                 plannerVars, growingVars, sampled_states,
                 increase_num_sampled_goals, prevsa>>

\* if (increase_num_sampled_goals) ++samplingAttempts_; the block's locals end
W_Attempts ==
  /\ spc = "attempts"
  /\ samplingAttempts_' = IF increase_num_sampled_goals THEN samplingAttempts_ + 1
                          ELSE samplingAttempts_
  /\ increase_num_sampled_goals' = FALSE
  /\ spc' = "loop"
  /\ UNCHANGED <<states_, goals_priority_queue_, terminateSamplingThread_,
                 terminateGrowingRoadmapThread_, samplingThread_,
                 growingRoadmapThread_, max_sampled_goals_, sample_goals_,
                 num_sampled_goals_, samplerFunc_, callback_, lock_, isSetup, threads,
                 plannerVars, growingVars, sampled_states, prevsa>>

\* lock_guard slock(lock_); terminateSamplingThread_ = true; the thread ends
W_Exit ==
  /\ spc = "exit"
  /\ lock_ = "free"
  /\ terminateSamplingThread_' = TRUE
  /\ spc' = "done"
  /\ UNCHANGED <<states_, goals_priority_queue_, terminateGrowingRoadmapThread_,
                 samplingThread_, growingRoadmapThread_, samplingAttempts_,
                 max_sampled_goals_, sample_goals_, num_sampled_goals_, samplerFunc_,
                 callback_, lock_, isSetup, threads, plannerVars, growingVars,
                 sampled_states, increase_num_sampled_goals, prevsa>>

goalSamplingThread(batches) ==
  \/ W_Barrier \/ W_Wait \/ W_Begin \/ W_Loop \/ W_Check
  \/ \E batch \in batches : W_Sample(batch)
  \/ W_For \/ W_Add \/ W_After \/ W_Attempts \/ W_Exit

----------------------------------------------------------------------------
(* roadmapGrowingThread *)

samplingVars == <<spc, sampled_states, increase_num_sampled_goals, prevsa>>

\* while (isGrowingRoadmap())
R_Loop ==
  /\ rpc = "loop"
  /\ lock_ = "free"
  /\ rpc' = IF isGrowingRoadmap THEN "grow" ELSE "exit"
  /\ UNCHANGED <<shared, plannerVars, samplingVars>>

\* prm_planner_->growRoadmap(0.1): acts on the external roadmap only
R_Grow ==
  /\ rpc = "grow"
  /\ rpc' = "loop"
  /\ UNCHANGED <<shared, plannerVars, samplingVars>>

\* lock_guard slock(lock_); terminateGrowingRoadmapThread_ = true; the thread ends
R_Exit ==
  /\ rpc = "exit"
  /\ lock_ = "free"
  /\ terminateGrowingRoadmapThread_' = TRUE
  /\ rpc' = "done"
  /\ UNCHANGED <<states_, goals_priority_queue_, terminateSamplingThread_,
                 samplingThread_, growingRoadmapThread_, samplingAttempts_,
                 max_sampled_goals_, sample_goals_, num_sampled_goals_, samplerFunc_,
                 callback_, lock_, isSetup, threads, plannerVars, samplingVars>>

roadmapGrowingThread == R_Loop \/ R_Grow \/ R_Exit

----------------------------------------------------------------------------
(* The calls of the planner thread *)

plannerLocals == <<newState, added, args, weightCalls, callbackCalls>>

\* a startSampling() that does not test samplingThread_
StartSampling_NoTest ==
  /\ ppc = "idle"
  /\ lock_ = "free"
  /\ terminateSamplingThread_' = FALSE
  /\ samplingThread_' = TRUE
  /\ threads' = [threads EXCEPT !.sampling = @ + 1]
  /\ spc' = "barrier"
  /\ ret' = Void
  /\ UNCHANGED <<states_, goals_priority_queue_, terminateGrowingRoadmapThread_,
                 growingRoadmapThread_, samplingAttempts_, max_sampled_goals_,
                 sample_goals_, num_sampled_goals_, samplerFunc_, callback_, lock_,
                 isSetup, sampled_states, increase_num_sampled_goals, prevsa,
                 growingVars, ppc, plannerLocals>>

\* startSampling(): one critical section
StartSampling ==
  /\ ppc = "idle"
  /\ lock_ = "free"
  /\ IF ~samplingThread_
       THEN /\ terminateSamplingThread_' = FALSE
            /\ samplingThread_' = TRUE
            /\ threads' = [threads EXCEPT !.sampling = @ + 1]
            /\ spc' = "barrier"
       ELSE UNCHANGED <<terminateSamplingThread_, samplingThread_, threads, spc>>
  /\ ret' = Void
  /\ UNCHANGED <<states_, goals_priority_queue_, terminateGrowingRoadmapThread_,
                 growingRoadmapThread_, samplingAttempts_, max_sampled_goals_,
                 sample_goals_, num_sampled_goals_, samplerFunc_, callback_, lock_,
                 isSetup, sampled_states, increase_num_sampled_goals, prevsa,
                 growingVars, ppc, plannerLocals>>

\* stopSampling(), the critical section that sets the termination flag
StopSampling_Flag ==
  /\ ppc = "idle"
  /\ lock_ = "free"
  /\ terminateSamplingThread_' = TRUE
  /\ ppc' = "stopSampling_join"
  /\ UNCHANGED <<states_, goals_priority_queue_, terminateGrowingRoadmapThread_,
                 samplingThread_, growingRoadmapThread_, samplingAttempts_,
                 max_sampled_goals_, sample_goals_, num_sampled_goals_, samplerFunc_,
                 callback_, lock_, isSetup, threads, samplingVars, growingVars,
                 plannerLocals, ret>>

\* a stopSampling() that releases the handle without joining the thread
StopSampling_NoJoin ==
  /\ ppc = "stopSampling_join"
  /\ IF samplingThread_
       THEN /\ samplingThread_' = FALSE
            /\ threads' = [threads EXCEPT !.sampling = @ - 1]
       ELSE UNCHANGED <<samplingThread_, threads>>
  /\ ppc' = "idle"
  /\ ret' = Void
  /\ UNCHANGED <<states_, goals_priority_queue_, terminateSamplingThread_,
                 terminateGrowingRoadmapThread_, growingRoadmapThread_,
                 samplingAttempts_, max_sampled_goals_, sample_goals_,
                 num_sampled_goals_, samplerFunc_, callback_, lock_, isSetup,
                 samplingVars, growingVars, plannerLocals>>

\* stopSampling(): if (samplingThread_ != nullptr) { join; delete; = nullptr }
StopSampling_Join ==
  /\ ppc = "stopSampling_join"
  /\ IF samplingThread_
       THEN /\ spc = "done"
            /\ samplingThread_' = FALSE
            /\ threads' = [threads EXCEPT !.sampling = @ - 1]
            /\ spc' = "none"
            /\ prevsa' = 0
       ELSE UNCHANGED <<samplingThread_, threads, spc, prevsa>>
  /\ ppc' = "idle"
  /\ ret' = Void
  /\ UNCHANGED <<states_, goals_priority_queue_, terminateSamplingThread_,
                 terminateGrowingRoadmapThread_, growingRoadmapThread_,
                 samplingAttempts_, max_sampled_goals_, sample_goals_,
                 num_sampled_goals_, samplerFunc_, callback_, lock_, isSetup,
                 sampled_states, increase_num_sampled_goals, growingVars,
                 plannerLocals>>

\* startGrowingRoadmap(): one critical section
StartGrowingRoadmap ==
  /\ ppc = "idle"
  /\ lock_ = "free"
  /\ IF ~growingRoadmapThread_
       THEN /\ terminateGrowingRoadmapThread_' = FALSE
            /\ growingRoadmapThread_' = TRUE
            /\ threads' = [threads EXCEPT !.growing = @ + 1]
            /\ rpc' = "loop"
       ELSE UNCHANGED <<terminateGrowingRoadmapThread_, growingRoadmapThread_,
                        threads, rpc>>
  /\ ret' = Void
  /\ UNCHANGED <<states_, goals_priority_queue_, terminateSamplingThread_,
                 samplingThread_, samplingAttempts_, max_sampled_goals_,
                 sample_goals_, num_sampled_goals_, samplerFunc_, callback_, lock_,
                 isSetup, samplingVars, ppc, plannerLocals>>

\* a stopGrowingRoadmap() that sets the termination flags of both threads
StopGrowingRoadmap_Flag_Both ==
  /\ ppc = "idle"
  /\ lock_ = "free"
  /\ terminateGrowingRoadmapThread_' = TRUE
  /\ terminateSamplingThread_' = TRUE
  /\ ppc' = "stopGrowingRoadmap_join"
  /\ UNCHANGED <<states_, goals_priority_queue_,
                 samplingThread_, growingRoadmapThread_, samplingAttempts_,
                 max_sampled_goals_, sample_goals_, num_sampled_goals_, samplerFunc_,
                 callback_, lock_, isSetup, threads, samplingVars, growingVars,
                 plannerLocals, ret>>

\* stopGrowingRoadmap(), the critical section that sets the termination flag
StopGrowingRoadmap_Flag ==
  /\ ppc = "idle"
  /\ lock_ = "free"
  /\ terminateGrowingRoadmapThread_' = TRUE
  /\ ppc' = "stopGrowingRoadmap_join"
  /\ UNCHANGED <<states_, goals_priority_queue_, terminateSamplingThread_,
                 samplingThread_, growingRoadmapThread_, samplingAttempts_,
                 max_sampled_goals_, sample_goals_, num_sampled_goals_, samplerFunc_,
                 callback_, lock_, isSetup, threads, samplingVars, growingVars,
                 plannerLocals, ret>>

\* stopGrowingRoadmap(): if (growingRoadmapThread_ != nullptr) { join; delete; = nullptr }
StopGrowingRoadmap_Join ==
  /\ ppc = "stopGrowingRoadmap_join"
  /\ IF growingRoadmapThread_
       THEN /\ rpc = "done"
            /\ growingRoadmapThread_' = FALSE
            /\ threads' = [threads EXCEPT !.growing = @ - 1]
            /\ rpc' = "none"
       ELSE UNCHANGED <<growingRoadmapThread_, threads, rpc>>
  /\ ppc' = "idle"
  /\ ret' = Void
  /\ UNCHANGED <<states_, goals_priority_queue_, terminateSamplingThread_,
                 terminateGrowingRoadmapThread_, samplingThread_,
                 samplingAttempts_, max_sampled_goals_, sample_goals_,
                 num_sampled_goals_, samplerFunc_, callback_, lock_, isSetup,
                 samplingVars, plannerLocals>>

\* the environment finishes the set-up of the space information
SetupDone ==
  /\ ~isSetup
  /\ isSetup' = TRUE
  /\ UNCHANGED <<states_, goals_priority_queue_, terminateSamplingThread_,
                 terminateGrowingRoadmapThread_, samplingThread_,
                 growingRoadmapThread_, samplingAttempts_, max_sampled_goals_,
                 sample_goals_, num_sampled_goals_, samplerFunc_, callback_, lock_,
                 threads, samplingVars, growingVars, plannerVars>>

\* a clear() that empties the store without taking the lock
Clear_States_Unlocked ==
  /\ ppc = "idle"
  /\ states_' = <<>>
  /\ ppc' = "clear_queue"
  /\ UNCHANGED <<goals_priority_queue_, terminateSamplingThread_,
                 terminateGrowingRoadmapThread_, samplingThread_,
                 growingRoadmapThread_, samplingAttempts_, max_sampled_goals_,
                 sample_goals_, num_sampled_goals_, samplerFunc_, callback_, lock_,
                 isSetup, threads, spc, sampled_states, increase_num_sampled_goals,
                 prevsa, rpc, newState, added, args, weightCalls, callbackCalls, ret>>

\* clear(): lock_guard slock(lock_); GoalStates::clear();
Clear_States ==
  /\ ppc = "idle"
  /\ lock_ = "free"
  /\ lock_' = "planner"
  /\ states_' = <<>>
  /\ ppc' = "clear_queue"
  /\ UNCHANGED <<goals_priority_queue_, terminateSamplingThread_,
                 terminateGrowingRoadmapThread_, samplingThread_,
                 growingRoadmapThread_, samplingAttempts_, max_sampled_goals_,
                 sample_goals_, num_sampled_goals_, samplerFunc_, callback_, isSetup,
                 threads, samplingVars, growingVars, plannerLocals, ret>>

\* clear(): goals_priority_queue_.clear(); the lock is released
Clear_Queue ==
  /\ ppc = "clear_queue"
  /\ goals_priority_queue_' = <<>>
  /\ lock_' = "free"
  /\ ppc' = "idle"
  /\ ret' = Void
  /\ UNCHANGED <<states_, terminateSamplingThread_, terminateGrowingRoadmapThread_,
                 samplingThread_, growingRoadmapThread_, samplingAttempts_,
                 max_sampled_goals_, sample_goals_, num_sampled_goals_, samplerFunc_,
                 callback_, isSetup, threads, samplingVars, growingVars,
                 plannerLocals>>

\* setNewStateCallback(callback)
SetNewStateCallback ==
  /\ ppc = "idle"
  /\ ~callback_
  /\ callback_' = TRUE
  /\ ret' = Void
  /\ UNCHANGED <<states_, goals_priority_queue_, terminateSamplingThread_,
                 terminateGrowingRoadmapThread_, samplingThread_,
                 growingRoadmapThread_, samplingAttempts_, max_sampled_goals_,
                 sample_goals_, num_sampled_goals_, samplerFunc_, lock_, isSetup,
                 threads, samplingVars, growingVars, ppc, plannerLocals>>

\* addState(st): lock_guard slock(lock_); GoalStates::addState(st);
AddState(st) ==
  /\ ppc = "idle"
  /\ lock_ = "free"
  /\ Len(states_) + Len(sampled_states) < MaxGoals
  /\ states_' = Append(states_, st)
  /\ ret' = Void
  /\ UNCHANGED <<goals_priority_queue_, terminateSamplingThread_,
                 terminateGrowingRoadmapThread_, samplingThread_,
                 growingRoadmapThread_, samplingAttempts_, max_sampled_goals_,
                 sample_goals_, num_sampled_goals_, samplerFunc_, callback_, lock_,
                 isSetup, threads, samplingVars, growingVars, ppc, plannerLocals>>

\* an addStateIfDifferent that also inserts at exactly minDistance
AddStateIfDifferent_AtLeast(st, minDistance) ==
  /\ ppc = "idle"
  /\ lock_ = "free"
  /\ Len(states_) + Len(sampled_states) < MaxGoals
  /\ callbackCalls < MaxCalls
  /\ IF distanceGoal(st) >= minDistance
       THEN /\ states_' = Append(states_, st)
            /\ added' = TRUE
            /\ newState' = IF callback_ THEN Len(states_) + 1 ELSE 0
       ELSE /\ added' = FALSE
            /\ newState' = 0
            /\ UNCHANGED states_
  /\ args' = <<st, minDistance>>
  /\ UNCHANGED weightCalls
  /\ ppc' = "addStateIfDifferent_callback"
  /\ UNCHANGED <<goals_priority_queue_, terminateSamplingThread_,
                 terminateGrowingRoadmapThread_, samplingThread_,
                 growingRoadmapThread_, samplingAttempts_, max_sampled_goals_,
                 sample_goals_, num_sampled_goals_, samplerFunc_, callback_, lock_,
                 isSetup, threads, spc, sampled_states, increase_num_sampled_goals,
                 prevsa, rpc, ret, callbackCalls>>

\* addStateIfDifferent(st, minDistance), the critical section
AddStateIfDifferent_Locked(st, minDistance) ==
  /\ ppc = "idle"
  /\ lock_ = "free"
  /\ Len(states_) + Len(sampled_states) < MaxGoals
  /\ callbackCalls < MaxCalls
  /\ IF distanceGoal(st) > minDistance
       THEN /\ states_' = Append(states_, st)
            /\ added' = TRUE
            /\ newState' = IF callback_ THEN Len(states_) + 1 ELSE 0
       ELSE /\ added' = FALSE
            /\ newState' = 0
            /\ UNCHANGED states_
  /\ args' = <<st, minDistance>>
  /\ UNCHANGED weightCalls
  /\ ppc' = "addStateIfDifferent_callback"
  /\ UNCHANGED <<goals_priority_queue_, terminateSamplingThread_,
                 terminateGrowingRoadmapThread_, samplingThread_,
                 growingRoadmapThread_, samplingAttempts_, max_sampled_goals_,
                 sample_goals_, num_sampled_goals_, samplerFunc_, callback_, lock_,
                 isSetup, threads, samplingVars, growingVars, ret, callbackCalls>>

\* an addStateIfDifferent that returns without issuing the callback
AddStateIfDifferent_NoCallback ==
  /\ ppc = "addStateIfDifferent_callback"
  /\ ret' = [kind |-> IF added THEN "true" ELSE "false", val |-> 0]
  /\ newState' = 0
  /\ added' = FALSE
  /\ args' = <<>>
  /\ UNCHANGED weightCalls
  /\ ppc' = "idle"
  /\ UNCHANGED <<states_, goals_priority_queue_, terminateSamplingThread_,
                 terminateGrowingRoadmapThread_, samplingThread_,
                 growingRoadmapThread_, samplingAttempts_, max_sampled_goals_,
                 sample_goals_, num_sampled_goals_, samplerFunc_, callback_, lock_,
                 isSetup, threads, spc, sampled_states, increase_num_sampled_goals,
                 prevsa, rpc, callbackCalls>>

\* addStateIfDifferent: if (newState != nullptr) callback_(newState); return added;
AddStateIfDifferent_Callback ==
  /\ ppc = "addStateIfDifferent_callback"
  /\ callbackCalls' = IF newState # 0 THEN callbackCalls + 1 ELSE callbackCalls
  /\ ret' = [kind |-> IF added THEN "true" ELSE "false", val |-> 0]
  /\ newState' = 0
  /\ added' = FALSE
  /\ args' = <<>>
  /\ UNCHANGED weightCalls
  /\ ppc' = "idle"
  /\ UNCHANGED <<shared, samplingVars, growingVars>>

\* the weights of the queue with that of entry h set to w
WithWeight(queue, h, w) == [queue EXCEPT ![h].weight_ = w]

\* a reset loop that skips the entries still above the threshold
AllReset_OnlyLow(queue) ==
  [i \in 1..Len(queue) |->
     IF Less(queue[i].weight_, ResetThreshold)
       THEN [queue[i] EXCEPT !.weight_ = ResetWeight]
       ELSE queue[i]]

\* the reset loop: every entry of getContent gets weight 0.5
AllReset(queue) == [i \in 1..Len(queue) |-> [queue[i] EXCEPT !.weight_ = ResetWeight]]

\* a reset condition that does not look at sample_goals_
ResetCondition_AnyFlag(w) == Less(w, ResetThreshold)

\* if (w < 0.2 && !sample_goals_)
ResetCondition(w) == Less(w, ResetThreshold) /\ ~sample_goals_

\* penalizeWeightedGoal(weighted_goal), up to the end of the reset loop
Penalize_Weight(h) ==
  /\ ppc = "idle"
  /\ ~Less(goals_priority_queue_[h].weight_, <<1, MaxPenal>>)
  /\ LET w == goals_priority_queue_[h].weight_
         penalized == WithWeight(goals_priority_queue_, h, Penalized(w))
     IN  IF ResetCondition(w)
           THEN /\ max_sampled_goals_ <= MaxTarget
                /\ goals_priority_queue_' = AllReset(penalized)
                /\ ppc' = "penalize_flag"
                /\ UNCHANGED ret
           ELSE /\ goals_priority_queue_' = penalized
                /\ ret' = Void
                /\ UNCHANGED ppc
  /\ UNCHANGED <<states_, terminateSamplingThread_, terminateGrowingRoadmapThread_,
                 samplingThread_, growingRoadmapThread_, samplingAttempts_,
                 max_sampled_goals_, sample_goals_, num_sampled_goals_, samplerFunc_,
                 callback_, lock_, isSetup, threads, samplingVars, growingVars,
                 plannerLocals>>

\* penalizeWeightedGoal: sample_goals_ = true;
Penalize_Flag ==
  /\ ppc = "penalize_flag"
  /\ sample_goals_' = TRUE
  /\ ppc' = "penalize_target"
  /\ UNCHANGED <<states_, goals_priority_queue_, terminateSamplingThread_,
                 terminateGrowingRoadmapThread_, samplingThread_,
                 growingRoadmapThread_, samplingAttempts_, max_sampled_goals_,
                 num_sampled_goals_, samplerFunc_, callback_, lock_, isSetup, threads,
                 samplingVars, growingVars, plannerLocals, ret>>

\* penalizeWeightedGoal: max_sampled_goals_ += 10;
Penalize_Target ==
  /\ ppc = "penalize_target"
  /\ max_sampled_goals_' = max_sampled_goals_ + TargetIncrement
  /\ ppc' = "idle"
  /\ ret' = Void
  /\ UNCHANGED <<states_, goals_priority_queue_, terminateSamplingThread_,
                 terminateGrowingRoadmapThread_, samplingThread_,
                 growingRoadmapThread_, samplingAttempts_, sample_goals_,
                 num_sampled_goals_, samplerFunc_, callback_, lock_, isSetup, threads,
                 samplingVars, growingVars, plannerLocals>>

\* rewardWeightedGoal(weighted_goal)
Reward(h) ==
  /\ ppc = "idle"
  /\ LET w == goals_priority_queue_[h].weight_
     IN  goals_priority_queue_' =
           IF Less(w, One) THEN WithWeight(goals_priority_queue_, h, Rewarded(w))
           ELSE goals_priority_queue_
  /\ ret' = Void
  /\ UNCHANGED <<states_, terminateSamplingThread_, terminateGrowingRoadmapThread_,
                 samplingThread_, growingRoadmapThread_, samplingAttempts_,
                 max_sampled_goals_, sample_goals_, num_sampled_goals_, samplerFunc_,
                 callback_, lock_, isSetup, threads, samplingVars, growingVars, ppc,
                 plannerLocals>>

\* a sampleWeightedGoal that does not test states_.empty()
SampleWeightedGoal_NoTest ==
  /\ ppc = "idle"
  /\ \E h \in TopHandles : ret' = [kind |-> "goal", val |-> h]
  /\ UNCHANGED <<shared, samplingVars, growingVars, ppc, plannerLocals>>

\* sampleWeightedGoal(weighted_goal): throws on an empty store, else hands
\* out the top of the queue (handle 0: the top of an empty heap)
SampleWeightedGoal ==
  /\ ppc = "idle"
  /\ IF states_ = <<>>
       THEN ret' = [kind |-> "EmptyRegion", val |-> 0]
       ELSE \E h \in TopHandles : ret' = [kind |-> "goal", val |-> h]
  /\ UNCHANGED <<shared, samplingVars, growingVars, ppc, plannerLocals>>

\* sampleConsecutiveGoal(weighted_goal): throws on an empty store, else
\* GoalStates::sampleGoal copies out one state of the store (val: its index)
SampleConsecutiveGoal ==
  /\ ppc = "idle"
  /\ IF states_ = <<>>
       THEN ret' = [kind |-> "EmptyRegion", val |-> 0]
       ELSE \E i \in 1..Len(states_) : ret' = [kind |-> "state", val |-> i]
  /\ UNCHANGED <<shared, samplingVars, growingVars, ppc, plannerLocals>>

Handles == 1..Len(goals_priority_queue_)

MinDistances == {0, 2}

----------------------------------------------------------------------------
(* stopSampling() called by the new-state callback *)

\* the callback of addStateIfDifferent, run by the planner thread, calls
\* stopSampling(): its critical section
Callback_StopSampling ==
  /\ ppc = "addStateIfDifferent_callback"
  /\ newState # 0
  /\ lock_ = "free"
  /\ terminateSamplingThread_' = TRUE
  /\ callbackCalls' = callbackCalls + 1
  /\ ppc' = "callback_join"
  /\ UNCHANGED <<states_, goals_priority_queue_, terminateGrowingRoadmapThread_,
                 samplingThread_, growingRoadmapThread_, samplingAttempts_,
                 max_sampled_goals_, sample_goals_, num_sampled_goals_, samplerFunc_,
                 callback_, lock_, isSetup, threads, samplingVars, growingVars,
                 newState, added, args, weightCalls, ret>>

\* that stopSampling() joins the sampling thread, the callback returns and
\* addStateIfDifferent returns added
Callback_Join ==
  /\ ppc = "callback_join"
  /\ IF samplingThread_
       THEN /\ spc = "done"
            /\ samplingThread_' = FALSE
            /\ threads' = [threads EXCEPT !.sampling = @ - 1]
            /\ spc' = "none"
       ELSE UNCHANGED <<samplingThread_, threads, spc>>
  /\ ret' = [kind |-> IF added THEN "true" ELSE "false", val |-> 0]
  /\ newState' = 0
  /\ ppc' = "idle"
  /\ UNCHANGED <<states_, goals_priority_queue_, terminateSamplingThread_,
                 terminateGrowingRoadmapThread_, growingRoadmapThread_,
                 samplingAttempts_, max_sampled_goals_, sample_goals_,
                 num_sampled_goals_, samplerFunc_, callback_, lock_, isSetup,
                 sampled_states, increase_num_sampled_goals, prevsa, growingVars,
                 added, args, weightCalls, callbackCalls>>

\* samplerFunc_ inserts its state through addStateIfDifferent(st, minDistance)
\* on the sampling thread: the critical section of addStateIfDifferent
W_SamplerAddIfDifferent(st, minDistance) ==
  /\ spc = "sample"
  /\ lock_ = "free"
  /\ Len(states_) < MaxGoals
  /\ callbackCalls < MaxCalls
  /\ IF distanceGoal(st) > minDistance
       THEN /\ states_' = Append(states_, st)
            /\ spc' = IF callback_ THEN "sampler_callback" ELSE "for"
       ELSE /\ spc' = "for"
            /\ UNCHANGED states_
  /\ sampled_states' = <<>>
  /\ increase_num_sampled_goals' = FALSE
  /\ UNCHANGED <<goals_priority_queue_, terminateSamplingThread_,
                 terminateGrowingRoadmapThread_, samplingThread_,
                 growingRoadmapThread_, samplingAttempts_, max_sampled_goals_,
                 sample_goals_, num_sampled_goals_, samplerFunc_, callback_, lock_,
                 isSetup, threads, plannerVars, growingVars, prevsa>>

\* the callback, run by the sampling thread, returns without stopping it
W_CallbackReturn ==
  /\ spc = "sampler_callback"
  /\ callbackCalls' = callbackCalls + 1
  /\ spc' = "for"
  /\ UNCHANGED <<shared, growingVars, sampled_states, increase_num_sampled_goals,
                 prevsa, ppc, newState, added, args, weightCalls, ret>>

\* the callback, run by the sampling thread, calls stopSampling(): its
\* critical section
W_CallbackStop ==
  /\ spc = "sampler_callback"
  /\ lock_ = "free"
  /\ terminateSamplingThread_' = TRUE
  /\ callbackCalls' = callbackCalls + 1
  /\ spc' = "self_join"
  /\ UNCHANGED <<states_, goals_priority_queue_, terminateGrowingRoadmapThread_,
                 samplingThread_, growingRoadmapThread_, samplingAttempts_,
                 max_sampled_goals_, sample_goals_, num_sampled_goals_, samplerFunc_,
                 callback_, lock_, isSetup, threads, growingVars, sampled_states,
                 increase_num_sampled_goals, prevsa, ppc, newState, added, args, weightCalls, ret>>

\* samplingThread_->join() called by the sampling thread itself: join throws
\* std::system_error (resource_deadlock_would_occur), nothing catches it and
\* the thread function ends in std::terminate; a join that does not detect
\* the case waits for ever at "self_join"
W_SelfJoin ==
  /\ spc = "self_join"
  /\ samplingThread_
  /\ spc' = "aborted"
  /\ UNCHANGED <<shared, plannerVars, growingVars, sampled_states,
                 increase_num_sampled_goals, prevsa>>

samplerCallback ==
  \/ \E st \in Positions, minDistance \in MinDistances :
       W_SamplerAddIfDifferent(st, minDistance)
  \/ W_CallbackReturn \/ W_CallbackStop \/ W_SelfJoin

----------------------------------------------------------------------------
(* The whole program *)

Next ==
  \/ goalSamplingThread(Batches(Positions, Oracles, InitWeights))
  \/ roadmapGrowingThread
  \/ SetupDone
  \/ StartSampling \/ StopSampling_Flag \/ StopSampling_Join
  \/ StartGrowingRoadmap \/ StopGrowingRoadmap_Flag \/ StopGrowingRoadmap_Join
  \/ Clear_States \/ Clear_Queue
  \/ SetNewStateCallback
  \/ \E st \in Positions : AddState(st)
  \/ \E st \in Positions, minDistance \in MinDistances :
       AddStateIfDifferent_Locked(st, minDistance)
  \/ AddStateIfDifferent_Callback
  \/ \E h \in Handles : Penalize_Weight(h)
  \/ Penalize_Flag \/ Penalize_Target
  \/ \E h \in Handles : Reward(h)
  \/ SampleWeightedGoal
  \/ SampleConsecutiveGoal
  \/ Callback_StopSampling \/ Callback_Join
  \/ samplerCallback

Spec == Init /\ [][Next]_vars

(***************************************************************************)
(* The product of the three threads over all the calls is too large to     *)
(* enumerate, so the properties are checked on the sub-systems below, each *)
(* made of whole actions of the program.                                   *)
(***************************************************************************)

\* the weighted selection: the sampling thread against penalize and reward
NextWeights ==
  \/ goalSamplingThread(Batches({0}, {<<TRUE, TRUE>>, <<TRUE, FALSE>>}, InitWeights))
  \/ SetupDone
  \/ StartSampling
  \/ \E h \in Handles : Penalize_Weight(h)
  \/ Penalize_Flag \/ Penalize_Target
  \/ \E h \in Handles : Reward(h)

SpecWeights == Init /\ [][NextWeights]_vars

----------------------------------------------------------------------------
(* Properties of the weighted selection, checked under SpecWeights *)

Weight(h) == goals_priority_queue_[h].weight_

AllHalf == \A h \in Handles : Weight(h) = ResetWeight

\* C1 as stated: a penalize call made while sample_goals_ is false that takes
\* the goal's weight below 0.2 returns with every queued weight at 0.5, the
\* target 10 larger and sample_goals_ true.
C1_AsStated ==
  [][\A h \in Handles :
       (Penalize_Weight(h) /\ ~sample_goals_
          /\ Less(Penalized(Weight(h)), ResetThreshold) /\ ppc' = "idle")
       => (AllHalf' /\ sample_goals_'
             /\ max_sampled_goals_' = max_sampled_goals_ + TargetIncrement)]_vars

\* C1 amended: a penalize call made while sample_goals_ is false on a goal
\* whose weight before the call is below 0.2 does not return before the reset;
\* during the call nothing else changes the target; and when the call returns
\* every queued weight is 0.5, the target is 10 larger than before the call
\* and sample_goals_ is true.
C1_RegionReset ==
  [][/\ \A h \in Handles :
          (Penalize_Weight(h) /\ ~sample_goals_ /\ Less(Weight(h), ResetThreshold))
          => (ppc' = "penalize_flag" /\ AllHalf'
                /\ max_sampled_goals_' = max_sampled_goals_)
     /\ (ppc = "penalize_flag")
          => (ppc' = "penalize_target" => sample_goals_')
             /\ max_sampled_goals_' = max_sampled_goals_
     /\ (ppc = "penalize_target" /\ ppc' = "penalize_target")
          => max_sampled_goals_' = max_sampled_goals_
     /\ (ppc = "penalize_target" /\ ppc' = "idle")
          => (AllHalf' /\ sample_goals_'
                /\ max_sampled_goals_' = max_sampled_goals_ + TargetIncrement)]_vars

\* a reset has returned and left two goals at 0.5
C1_Witness ==
  /\ ppc = "idle"
  /\ max_sampled_goals_ > MaxTarget
  /\ sample_goals_
  /\ Len(goals_priority_queue_) >= 2
  /\ AllHalf

C3_Reward ==
  /\ [](\A h \in Handles : ~Less(One, Weight(h)))
  /\ [][\A h \in Handles :
          Reward(h)
          => LET w == Weight(h)
                 nw == Weight(h)'
             IN  /\ ~Less(nw, w)
                 /\ ~Less(One, nw)
                 /\ Less(w, One) =>
                      IF w[1] >= w[2] - w[1]
                        THEN nw = One
                        ELSE nw[1] * (w[2] - w[1]) = nw[2] * w[1]
                 /\ ~Less(w, One) => goals_priority_queue_' = goals_priority_queue_]_vars

\* rewards took the first goal from the 0.5 of a reset up to the ceiling
C3_Witness ==
  /\ max_sampled_goals_ > MaxTarget
  /\ Len(goals_priority_queue_) >= 2
  /\ Weight(1) = One
  /\ Weight(2) = ResetWeight

----------------------------------------------------------------------------
(* The scenario of a sampling function that yields ScenarioBatch in-bounds, *)
(* valid candidates per call, with the target ScenarioTarget and an empty   *)
(* store                                                                    *)

InitScenario ==
  /\ states_ = <<>>
  /\ goals_priority_queue_ = <<>>
  /\ terminateSamplingThread_ = FALSE
  /\ terminateGrowingRoadmapThread_ = FALSE
  /\ samplingThread_ = FALSE
  /\ growingRoadmapThread_ = FALSE
  /\ samplingAttempts_ = 0
  /\ max_sampled_goals_ = ScenarioTarget
  /\ sample_goals_ = TRUE
  /\ num_sampled_goals_ = 0
  /\ samplerFunc_ = TRUE
  /\ callback_ = FALSE
  /\ lock_ = "free"
  /\ isSetup \in BOOLEAN
  /\ threads = [sampling |-> 0, growing |-> 0]
  /\ spc = "none"
  /\ sampled_states = <<>>
  /\ increase_num_sampled_goals = FALSE
  /\ prevsa = 0
  /\ rpc = "none"
  /\ ppc = "idle"
  /\ newState = 0
  /\ added = FALSE
  /\ args = <<>>
  /\ weightCalls = <<>>
  /\ ret = Void
  /\ callbackCalls = 0

ScenarioBatches ==
  [1..ScenarioBatch -> Candidates({0}, {<<TRUE, TRUE>>}, InitWeights)]

NextScenario ==
  \/ goalSamplingThread(ScenarioBatches)
  \/ SetupDone
  \/ StartSampling \/ StopSampling_Flag \/ StopSampling_Join

SpecScenario == InitScenario /\ [][NextScenario]_vars

\* C4: the sampling thread never accepts more goals than the target, and in
\* the scenario, once it has paused (sample_goals_ false), the store holds
\* exactly ScenarioTarget goals.
C4_AsStated ==
  /\ num_sampled_goals_ <= max_sampled_goals_
  /\ ~sample_goals_ => Len(states_) = ScenarioTarget

----------------------------------------------------------------------------
(* The goal store: the sampling thread against addState,                   *)
(* addStateIfDifferent, clear and sampleWeightedGoal                       *)

NextStore ==
  \/ goalSamplingThread(Batches({4}, {<<TRUE, TRUE>>, <<TRUE, FALSE>>}, InitWeights))
  \/ SetupDone
  \/ StartSampling
  \/ Clear_States \/ Clear_Queue
  \/ SetNewStateCallback
  \/ \E st \in Positions : AddState(st)
  \/ \E st \in Positions, minDistance \in MinDistances :
       AddStateIfDifferent_Locked(st, minDistance)
  \/ AddStateIfDifferent_Callback
  \/ SampleWeightedGoal
  \/ SampleConsecutiveGoal

SpecStore == Init /\ [][NextStore]_vars


\* C5: clear() empties the store and the queue in one critical section: the
\* planner holds lock_ between the two, and when clear() returns
\* getStateCount() is 0, hasStates() is false and the queue is empty;
\* sampleWeightedGoal on the empty store fails with EmptyRegion.
C5_Clear ==
  /\ [](ppc = "clear_queue" => lock_ = "planner")
  /\ [][/\ Clear_Queue
            => (getStateCount' = 0 /\ ~hasStates' /\ goals_priority_queue_' = <<>>
                  /\ lock_' = "free")
        /\ (SampleWeightedGoal /\ getStateCount = 0)
            => ret' = [kind |-> "EmptyRegion", val |-> 0]]_vars

\* sampleWeightedGoal failed on a store that the sampling thread had populated
\* and clear() then emptied
C5_Witness ==
  /\ ret.kind = "EmptyRegion"
  /\ num_sampled_goals_ > 0
  /\ states_ = <<>>
  /\ goals_priority_queue_ = <<>>

\* every goal of the store is farther than m from st
Farther(st, m) == \A i \in 1..Len(states_) : Abs(st - states_[i]) > m

\* C9: addStateIfDifferent(st, minDistance) appends st and returns true exactly
\* when every goal of the store is strictly farther than minDistance from st;
\* otherwise it returns false, leaves the store as it is and issues no callback.
C9_AddStateIfDifferent ==
  [][/\ \A st \in Positions, m \in MinDistances :
          AddStateIfDifferent_Locked(st, m)
          => IF Farther(st, m)
               THEN states_' = Append(states_, st) /\ added'
               ELSE states_' = states_ /\ ~added' /\ newState' = 0
     /\ AddStateIfDifferent_Callback
          => /\ ret'.kind = (IF added THEN "true" ELSE "false")
             /\ ~added => callbackCalls' = callbackCalls]_vars

\* with minDistance 1.0 (2 units), 0 was inserted next to a goal at distance
\* 2.0 (4 units)
C9_Witness ==
  /\ ppc = "addStateIfDifferent_callback"
  /\ args = <<0, 2>>
  /\ states_ = <<4, 0>>
  /\ added

----------------------------------------------------------------------------
(* The two workers: starting and stopping them *)

ThreadBatches == Batches({0}, {<<TRUE, TRUE>>, <<TRUE, FALSE>>}, InitWeights)

NextThreads ==
  \/ goalSamplingThread(ThreadBatches)
  \/ roadmapGrowingThread
  \/ SetupDone
  \/ StartSampling \/ StopSampling_Flag \/ StopSampling_Join
  \/ StartGrowingRoadmap \/ StopGrowingRoadmap_Flag \/ StopGrowingRoadmap_Join

SpecThreads == Init /\ [][NextThreads]_vars

\* every thread that can take a step eventually takes one, the planner
\* included once it is inside a stop call; the injected functions return
FairThreads ==
  /\ SpecThreads
  /\ WF_vars(goalSamplingThread(ThreadBatches))
  /\ WF_vars(roadmapGrowingThread)
  /\ WF_vars(StopSampling_Join)
  /\ WF_vars(StopGrowingRoadmap_Join)

\* C6: there is never more than one sampling thread nor more than one roadmap
\* growing thread, each alive exactly when its handle is set; a start call
\* made while the handle is set creates no thread and leaves the worker's stop
\* flag and the worker itself as they are.
C6_StartIdempotent ==
  /\ [](/\ threads.sampling = (IF samplingThread_ THEN 1 ELSE 0)
        /\ threads.growing = (IF growingRoadmapThread_ THEN 1 ELSE 0))
  /\ [][/\ (StartSampling /\ samplingThread_)
            => UNCHANGED <<threads, terminateSamplingThread_, samplingThread_,
                           samplingVars>>
        /\ (StartGrowingRoadmap /\ growingRoadmapThread_)
            => UNCHANGED <<threads, terminateGrowingRoadmapThread_,
                           growingRoadmapThread_, growingVars>>]_vars

\* both workers run and the planner is free to call start again
C6_Witness ==
  /\ ppc = "idle"
  /\ threads = [sampling |-> 1, growing |-> 1]
  /\ spc = "for"
  /\ rpc = "grow"

\* C7: when stopSampling() returns the sampling thread has ended, its handle
\* is null and isSampling() is false; while the handle is null the thread does
\* not exist, and only startSampling changes that: the store, the queue and
\* the counters of the thread do not change.
C7_StopJoins ==
  /\ [](~samplingThread_ => (spc = "none" /\ ~isSampling))
  /\ [][/\ StopSampling_Join
            => (spc' = "none" /\ ~samplingThread_' /\ ~isSampling'
                  /\ threads'.sampling = 0)
        /\ (~samplingThread_ /\ ~samplingThread_')
            => UNCHANGED <<states_, goals_priority_queue_, num_sampled_goals_,
                           samplingAttempts_, sample_goals_, samplingVars>>]_vars

\* stopSampling() has returned on a worker that had sampled goals
C7_Witness ==
  /\ ppc = "idle"
  /\ ~samplingThread_
  /\ terminateSamplingThread_
  /\ Len(states_) > 0

\* C8: every stop call returns: a planner inside stopSampling() or
\* stopGrowingRoadmap() eventually leaves it, whatever the worker is doing, and
\* returns at its next step when the worker's handle is null; no step of a
\* stop call creates a thread.
C8_StopReturns ==
  /\ (ppc = "stopSampling_join") ~> (ppc = "idle")
  /\ (ppc = "stopGrowingRoadmap_join") ~> (ppc = "idle")
  /\ [](/\ (ppc = "stopSampling_join" /\ ~samplingThread_) => ENABLED StopSampling_Join
        /\ (ppc = "stopGrowingRoadmap_join" /\ ~growingRoadmapThread_)
             => ENABLED StopGrowingRoadmap_Join)
  /\ [][(ppc # "idle" \/ ppc' # "idle")
          => (threads'.sampling <= threads.sampling
                /\ threads'.growing <= threads.growing)]_vars

\* a stop was requested while the sampling thread waits for the set-up
C8_Witness ==
  /\ ppc = "stopSampling_join"
  /\ spc = "wait"
  /\ ~isSetup


----------------------------------------------------------------------------
(* Sampling from an empty store *)

\* C11: sampleWeightedGoal and sampleConsecutiveGoal called on an empty store
\* return the EmptyRegion error to the caller in that same step and change
\* nothing else: the store, the queue and its weights, the counters, the flags
\* and both threads are as before.
C11_EmptyRegion ==
  [][((SampleWeightedGoal \/ SampleConsecutiveGoal) /\ states_ = <<>>)
       => /\ ret' = [kind |-> "EmptyRegion", val |-> 0]
          /\ ppc' = "idle"
          /\ UNCHANGED <<shared, samplingVars, growingVars, plannerLocals>>]_vars

\* the error was returned on an empty store whose queue the sampling function
\* had already filled
C11_Witness ==
  /\ ret.kind = "EmptyRegion"
  /\ states_ = <<>>
  /\ goals_priority_queue_ # <<>>
  /\ spc = "for"


----------------------------------------------------------------------------
(* The lock *)

\* C12 as stated: the store, the counters and the flags are written only by a
\* thread that holds lock_, so while one thread holds lock_ across a step of
\* another thread, that step leaves them all as they are.
C12_AsStated ==
  [][(lock_ # "free" /\ lock_' = lock_)
       => UNCHANGED <<states_, num_sampled_goals_, samplingAttempts_,
                      max_sampled_goals_, sample_goals_, terminateSamplingThread_,
                      terminateGrowingRoadmapThread_>>]_vars


----------------------------------------------------------------------------
(* Waiting for the set-up *)

\* the places of the sampling thread inside its while loop
InLoop == {"loop", "check", "sample", "for", "add", "after", "attempts"}

\* C13: the sampling thread is inside its loop, calls the sampling function
\* and appends goals only once si_->isSetup() holds; it leaves the wait loop
\* before the set-up only on a stop request, and a thread stopped before it
\* begins goes straight to its exit: the stop request stands until the thread
\* is joined.
C13_WaitsForSetup ==
  /\ [](spc \in InLoop => isSetup)
  /\ [][/\ (spc = "sample" /\ spc' # spc) => isSetup
        /\ (spc = "add" /\ states_' # states_) => isSetup
        /\ (spc = "wait" /\ spc' # spc /\ ~isSetup)
             => (terminateSamplingThread_ /\ spc' = "begin")
        /\ (spc = "begin" /\ spc' # spc /\ terminateSamplingThread_)
             => spc' = "exit"
        /\ (terminateSamplingThread_ /\ spc \in {"wait", "begin"})
             => terminateSamplingThread_']_vars

\* stopped while waiting for a set-up that never came, the thread is at its
\* exit and the sampling function was never called
C13_Witness ==
  /\ spc = "exit"
  /\ ~isSetup
  /\ terminateSamplingThread_
  /\ ppc = "stopSampling_join"
  /\ goals_priority_queue_ = <<>>
  /\ states_ = <<>>


----------------------------------------------------------------------------
(* Resuming after a region reset *)

\* the sizes of the batches of the sampling function: single candidates, or
\* more than a whole target increment at once
ResumeSizes == {1, TargetIncrement + 1}

ResumeBatches ==
  {[i \in 1..n |-> [state_ |-> 0, inBounds |-> TRUE, valid |-> TRUE,
                    weight_ |-> CHOOSE w \in InitWeights : TRUE]] :
     n \in ResumeSizes}

NextResume ==
  \/ goalSamplingThread(ResumeBatches)
  \/ SetupDone
  \/ StartSampling
  \/ \E h \in Handles \cap {1} : Penalize_Weight(h)
  \/ Penalize_Flag \/ Penalize_Target

\* both threads keep running: the sampling thread takes its next step and a
\* penalizeWeightedGoal call in progress runs to its end
FairResume ==
  /\ Init /\ [][NextResume]_vars
  /\ WF_vars(goalSamplingThread(ResumeBatches))
  /\ WF_vars(Penalize_Flag)
  /\ WF_vars(Penalize_Target)

\* C14 as stated: after a region reset, made while the sampling thread is
\* alive and not asked to stop, the thread eventually calls the sampling
\* function again, whatever the sizes of its batches.
C14_AsStated ==
  (ppc = "penalize_target" /\ isSampling) ~> (spc = "sample")


----------------------------------------------------------------------------
(* What penalizeWeightedGoal leaves alone *)

\* C15: penalizeWeightedGoal begins the region reset exactly when the weight
\* it read is below 0.2 and sample_goals_ is false, and only it raises the
\* target; any other call returns at once having set the goal's weight to
\* w / (w + 1) and left the other weights, the length of the queue,
\* sample_goals_, the target, the accepted count and the store as they were.
C15_PenalizeFrame ==
  [][/\ \A h \in Handles :
          Penalize_Weight(h)
          => IF Less(Weight(h), ResetThreshold) /\ ~sample_goals_
               THEN ppc' = "penalize_flag" /\ AllHalf'
               ELSE /\ ppc' = "idle"
                    /\ Weight(h)'[1] * (Weight(h)[1] + Weight(h)[2])
                         = Weight(h)'[2] * Weight(h)[1]
                    /\ Len(goals_priority_queue_') = Len(goals_priority_queue_)
                    /\ \A k \in Handles \ {h} : Weight(k)' = Weight(k)
                    /\ UNCHANGED <<sample_goals_, max_sampled_goals_,
                                   num_sampled_goals_, states_>>
     /\ (ppc = "idle" /\ ppc' = "penalize_flag")
          => \E h \in Handles : Less(Weight(h), ResetThreshold) /\ ~sample_goals_
     /\ (max_sampled_goals_' # max_sampled_goals_) => ppc = "penalize_target"]_vars

\* a goal was penalized below 0.2 with sample_goals_ still true: no reset, and
\* the other goal kept its weight
C15_Witness ==
  /\ ppc = "idle"
  /\ Len(goals_priority_queue_) >= 2
  /\ Less(Weight(1), ResetThreshold)
  /\ Weight(2) = <<2, 3>>
  /\ sample_goals_
  /\ max_sampled_goals_ = MaxTarget


----------------------------------------------------------------------------
(* The store against the queue *)

\* C16 as stated: whenever the store holds a goal the queue holds one too, and
\* a sampleWeightedGoal that got past its test of the store was handed a top
\* entry of the queue, never the null top of an empty heap.
C16_AsStated ==
  /\ (ppc = "idle" /\ states_ # <<>>) => goals_priority_queue_ # <<>>
  /\ ret.kind = "goal" => ret.val # 0


----------------------------------------------------------------------------
(* Sampling sessions *)

\* C17 as stated: a sampling session starts from fresh counters: when the
\* thread created by startSampling begins its computation, also after an
\* earlier session was stopped, the accepted count is 0 and sample_goals_ is
\* true.
C17_AsStated ==
  [][(spc = "begin" /\ spc' = "loop")
       => (num_sampled_goals_' = 0 /\ sample_goals_')]_vars


----------------------------------------------------------------------------
(* The sampling thread at its target *)

\* C18 as stated: once the accepted count has reached the target, the
\* sampling thread ends by itself: its stop flag becomes true and isSampling()
\* false without any stop request.
C18_AsStated ==
  (samplingThread_ /\ ~sample_goals_ /\ ppc = "idle") ~> ~isSampling

\* C18 amended: at its target the sampling thread pauses: it stays in its loop
\* and does not call the sampling function while the accepted count is not
\* below the target; it leaves the loop only when its stop flag is set, only
\* stopSampling or the exit of the thread sets that flag, and the thread goes
\* to its exit from the beginning only when no sampling function is set or a
\* stop was requested.
C18_Pauses ==
  /\ [](spc \in InLoop /\ ~terminateSamplingThread_ => isSampling)
  /\ [][/\ (spc \in InLoop /\ spc' \notin InLoop)
             => (terminateSamplingThread_ /\ spc' = "exit")
        /\ (spc = "check" /\ ~(num_sampled_goals_ < max_sampled_goals_))
             => spc' # "sample"
        /\ (~terminateSamplingThread_ /\ terminateSamplingThread_')
             => (ppc' = "stopSampling_join" \/ spc = "exit")
        /\ (spc = "begin" /\ spc' = "exit")
             => (~samplerFunc_ \/ terminateSamplingThread_)]_vars

\* the thread is alive and paused at its target, no stop was requested
C18_Witness ==
  /\ spc = "check"
  /\ ~sample_goals_
  /\ ~(num_sampled_goals_ < max_sampled_goals_)
  /\ isSampling
  /\ ppc = "idle"


----------------------------------------------------------------------------
(* Stopping from inside the callback *)

NextCallback ==
  \/ goalSamplingThread(ThreadBatches)
  \/ samplerCallback
  \/ SetupDone
  \/ SetNewStateCallback
  \/ StartSampling \/ StopSampling_Flag \/ StopSampling_Join
  \/ \E st \in Positions, minDistance \in MinDistances :
       AddStateIfDifferent_Locked(st, minDistance)
  \/ AddStateIfDifferent_Callback
  \/ Callback_StopSampling \/ Callback_Join

\* each thread takes its next step; the planner inside a join leaves it when
\* the sampling thread has ended
FairCallback ==
  /\ Init /\ [][NextCallback]_vars
  /\ WF_vars(goalSamplingThread(ThreadBatches))
  /\ WF_vars(W_CallbackReturn \/ W_CallbackStop \/ W_SelfJoin)
  /\ WF_vars(StopSampling_Join)
  /\ WF_vars(Callback_Join)

\* C19 as stated: a stopSampling() called inside the new-state callback
\* returns with the sampling thread stopped, on the planner thread and on the
\* sampling thread alike.
C19_AsStated ==
  /\ (ppc = "callback_join") ~> (ppc = "idle" /\ ~isSampling)
  /\ (spc = "self_join") ~> (spc \in {"done", "none"} /\ ~isSampling)


----------------------------------------------------------------------------
(* The roadmap growing thread beside the sampling thread *)

\* C20: startGrowingRoadmap, stopGrowingRoadmap and the roadmap growing
\* thread leave the store, the queue, the counters and the flag of the
\* sampling, the sampling thread, its stop flag and its handle as they are;
\* startSampling and stopSampling leave the roadmap growing thread, its stop
\* flag and its handle as they are: stopping one thread does not stop the
\* other.
C20_RoadmapIndependent ==
  [][/\ (\/ StartGrowingRoadmap \/ StopGrowingRoadmap_Flag
         \/ StopGrowingRoadmap_Join \/ roadmapGrowingThread)
          => /\ UNCHANGED <<states_, goals_priority_queue_, num_sampled_goals_,
                            samplingAttempts_, max_sampled_goals_, sample_goals_,
                            terminateSamplingThread_, samplingThread_,
                            samplingVars>>
             /\ threads'.sampling = threads.sampling
             /\ isSampling' = isSampling
     /\ (StartSampling \/ StopSampling_Flag \/ StopSampling_Join)
          => /\ UNCHANGED <<terminateGrowingRoadmapThread_,
                            growingRoadmapThread_, growingVars>>
             /\ threads'.growing = threads.growing
             /\ isGrowingRoadmap' = isGrowingRoadmap]_vars

\* the roadmap growing thread was stopped and joined while the sampling thread
\* goes on in its for loop, a goal already in the store
C20_Witness ==
  /\ ppc = "idle"
  /\ ~growingRoadmapThread_
  /\ terminateGrowingRoadmapThread_
  /\ rpc = "none"
  /\ isSampling
  /\ spc = "for"
  /\ Len(states_) > 0

----------------------------------------------------------------------------
(***************************************************************************)
(* The weights in double precision.  weight_ is a double: the quotients of *)
(* penalize and reward are rounded to the nearest binary64 number, ties to *)
(* even.  A positive double is [m |-> mantissa, e |-> exponent], its value *)
(* m * 2^e, with m a natural number of MantissaBits bits held in limbs of  *)
(* LimbBits bits, least significant first.                                 *)
(***************************************************************************)

MaxRoundTrip == 2  \* penalize and reward calls explored in a row

MantissaBits == 53
LimbBits == 15
Base == 2 ^ LimbBits

(* Natural numbers of any length *)

RECURSIVE NatTrim(_)
NatTrim(a) ==
  IF a = <<>> THEN a
  ELSE IF a[Len(a)] # 0 THEN a ELSE NatTrim(SubSeq(a, 1, Len(a) - 1))

LimbAt(a, i) == IF i <= Len(a) THEN a[i] ELSE 0

NatLess(a, b) ==
  LET S == {i \in 1..Len(a) : a[i] # LimbAt(b, i)}
  IN  IF Len(a) # Len(b) THEN Len(a) < Len(b)
      ELSE IF S = {} THEN FALSE
      ELSE LET i == CHOOSE j \in S : \A k \in S : k <= j IN a[i] < b[i]

RECURSIVE NatAddFrom(_, _, _, _)
NatAddFrom(a, b, i, carry) ==
  IF i > Len(a) /\ i > Len(b)
    THEN IF carry = 1 THEN <<1>> ELSE <<>>
    ELSE LET s == LimbAt(a, i) + LimbAt(b, i) + carry
         IN  <<s % Base>> \o NatAddFrom(a, b, i + 1, s \div Base)

NatAdd(a, b) == NatAddFrom(a, b, 1, 0)

RECURSIVE NatSubFrom(_, _, _, _)
NatSubFrom(a, b, i, borrow) ==
  IF i > Len(a) THEN <<>>
  ELSE LET s == a[i] - LimbAt(b, i) - borrow
       IN  <<s % Base>> \o NatSubFrom(a, b, i + 1, IF s < 0 THEN 1 ELSE 0)

\* a - b, for a >= b
NatSub(a, b) == NatTrim(NatSubFrom(a, b, 1, 0))

RECURSIVE NatTimesFrom(_, _, _, _)
NatTimesFrom(a, k, i, carry) ==
  IF i > Len(a)
    THEN IF carry > 0 THEN <<carry>> ELSE <<>>
    ELSE LET s == a[i] * k + carry
         IN  <<s % Base>> \o NatTimesFrom(a, k, i + 1, s \div Base)

\* a * k, for k <= Base
NatTimes(a, k) == NatTimesFrom(a, k, 1, 0)

RECURSIVE NatOverFrom(_, _, _, _)
NatOverFrom(a, k, i, rem) ==
  IF i = 0 THEN <<>>
  ELSE LET s == rem * Base + a[i]
       IN  NatOverFrom(a, k, i - 1, s % k) \o <<s \div k>>

\* a \div k, for 0 < k <= Base
NatOver(a, k) == NatTrim(NatOverFrom(a, k, Len(a), 0))

LimbBitLen(x) == CHOOSE k \in 0..LimbBits : x < 2 ^ k /\ (k = 0 \/ x >= 2 ^ (k - 1))

BitLen(a) == IF a = <<>> THEN 0 ELSE LimbBits * (Len(a) - 1) + LimbBitLen(a[Len(a)])

ShiftLeft(a, k) ==
  IF a = <<>> THEN a
  ELSE [i \in 1..(k \div LimbBits) |-> 0] \o NatTimes(a, 2 ^ (k % LimbBits))

ShiftRight(a, k) ==
  IF k \div LimbBits >= Len(a) THEN <<>>
  ELSE NatOver(SubSeq(a, (k \div LimbBits) + 1, Len(a)), 2 ^ (k % LimbBits))

\* k more bits of the quotient by b, from qr = <<bits so far, remainder>>
RECURSIVE NatDivFrom(_, _, _)
NatDivFrom(qr, b, k) ==
  IF k = 0 THEN qr
  ELSE LET q2 == NatTimes(qr[1], 2)
           r2 == NatTimes(qr[2], 2)
       IN  IF NatLess(r2, b)
             THEN NatDivFrom(<<q2, r2>>, b, k - 1)
             ELSE NatDivFrom(<<NatAdd(q2, <<1>>), NatSub(r2, b)>>, b, k - 1)

\* <<a * 2^k \div b, the remainder>>, for a < 2 * b
NatDivMod(a, b, k) ==
  IF NatLess(a, b)
    THEN NatDivFrom(<<(<<>>), a>>, b, k)
    ELSE NatDivFrom(<<(<<1>>), NatSub(a, b)>>, b, k)

(* Doubles *)

\* the double nearest to n * 2^e, or to a number strictly between n * 2^e
\* and (n + 1) * 2^e when sticky; ties go to the even mantissa
RoundNat(n, e, sticky) ==
  LET d == BitLen(n) - MantissaBits
  IN  IF d <= 0
        THEN [m |-> ShiftLeft(n, -d), e |-> e + d]
        ELSE LET kept == ShiftRight(n, d)
                 rest == NatSub(n, ShiftLeft(kept, d))
                 half == ShiftLeft(<<1>>, d - 1)
                 up == \/ NatLess(half, rest)
                       \/ rest = half /\ (sticky \/ kept[1] % 2 = 1)
                 k2 == IF up THEN NatAdd(kept, <<1>>) ELSE kept
             IN  IF BitLen(k2) > MantissaBits
                   THEN [m |-> ShiftRight(k2, 1), e |-> e + d + 1]
                   ELSE [m |-> k2, e |-> e + d]

\* x + y
DAdd(x, y) ==
  LET e == Min(x.e, y.e)
  IN  RoundNat(NatAdd(ShiftLeft(x.m, x.e - e), ShiftLeft(y.m, y.e - e)), e, FALSE)

\* x - y, for x >= y
DSub(x, y) ==
  LET e == Min(x.e, y.e)
  IN  RoundNat(NatSub(ShiftLeft(x.m, x.e - e), ShiftLeft(y.m, y.e - e)), e, FALSE)

\* x / y
DDiv(x, y) ==
  LET qr == NatDivMod(x.m, y.m, MantissaBits + 2)
  IN  RoundNat(qr[1], x.e - y.e - MantissaBits - 2, qr[2] # <<>>)

\* x < y
DLess(x, y) == IF x.e # y.e THEN x.e < y.e ELSE NatLess(x.m, y.m)

\* the double of the integer k, 0 < k < Base
DFromInt(k) == RoundNat(<<k>>, 0, FALSE)

\* the double a decimal literal n/d denotes: the one nearest to it
DRatio(n, d) == DDiv(DFromInt(n), DFromInt(d))

DOne == DFromInt(1)

ResetWeightDouble == DRatio(1, 2)

ResetThresholdDouble == DRatio(1, 5)

\* w / (w + 1.)
PenalizedDouble(w) == DDiv(w, DAdd(w, DOne))

\* a reward that divides by 1. + w
RewardedDouble_Plus(w) ==
  LET new_w == DDiv(w, DAdd(DOne, w))
  IN  IF DLess(DOne, new_w) THEN DOne ELSE new_w

\* new_w = w / (1. - w), clamped to 1.0; only evaluated when w < 1.0
RewardedDouble(w) ==
  LET new_w == DDiv(w, DSub(DOne, w))
  IN  IF DLess(DOne, new_w) THEN DOne ELSE new_w

\* the weights the sampling function gives to new queue entries
DoubleWeights ==
  {DRatio(r[1], r[2]) :
     r \in {<<1, 1>>, <<9, 10>>, <<3, 4>>, <<3, 5>>, <<1, 2>>, <<2, 5>>,
            <<1, 3>>, <<3, 10>>, <<1, 5>>, <<1, 10>>}}

\* a sampling session that was stopped, before or after the thread reached
\* its target: MaxTarget entries of one weight in the queue
InitDouble ==
  /\ sample_goals_ \in BOOLEAN
  /\ num_sampled_goals_ = (IF sample_goals_ THEN MaxTarget - 1 ELSE MaxTarget)
  /\ states_ = [i \in 1..num_sampled_goals_ |-> 0]
  /\ \E w \in DoubleWeights :
       goals_priority_queue_ = [i \in 1..MaxTarget |-> [state_ |-> 0, weight_ |-> w]]
  /\ terminateSamplingThread_ = TRUE
  /\ terminateGrowingRoadmapThread_ = FALSE
  /\ samplingThread_ = FALSE
  /\ growingRoadmapThread_ = FALSE
  /\ samplingAttempts_ = 1
  /\ max_sampled_goals_ = MaxTarget
  /\ samplerFunc_ = TRUE
  /\ callback_ = FALSE
  /\ lock_ = "free"
  /\ isSetup = TRUE
  /\ threads = [sampling |-> 0, growing |-> 0]
  /\ spc = "none"
  /\ sampled_states = <<>>
  /\ increase_num_sampled_goals = FALSE
  /\ prevsa = 0
  /\ rpc = "none"
  /\ ppc = "idle"
  /\ newState = 0
  /\ added = FALSE
  /\ args = <<>>
  /\ weightCalls = <<>>
  /\ ret = Void
  /\ callbackCalls = 0

AllResetDouble(queue) ==
  [i \in 1..Len(queue) |-> [queue[i] EXCEPT !.weight_ = ResetWeightDouble]]

\* if (w < 0.2 && !sample_goals_)
ResetConditionDouble(w) == DLess(w, ResetThresholdDouble) /\ ~sample_goals_

\* penalizeWeightedGoal(weighted_goal), up to the end of the reset loop
PenalizeDouble_Weight(h) ==
  /\ ppc = "idle"
  /\ Len(weightCalls) < MaxRoundTrip
  /\ LET w == goals_priority_queue_[h].weight_
         penalized == WithWeight(goals_priority_queue_, h, PenalizedDouble(w))
     IN  /\ weightCalls' =
              Append(weightCalls, [call |-> "penalize", goal |-> h, w |-> w,
                                   reset |-> ResetConditionDouble(w)])
         /\ IF ResetConditionDouble(w)
              THEN /\ goals_priority_queue_' = AllResetDouble(penalized)
                   /\ ppc' = "penalize_flag"
                   /\ UNCHANGED ret
              ELSE /\ goals_priority_queue_' = penalized
                   /\ ret' = Void
                   /\ UNCHANGED ppc
  /\ UNCHANGED <<states_, terminateSamplingThread_, terminateGrowingRoadmapThread_,
                 samplingThread_, growingRoadmapThread_, samplingAttempts_,
                 max_sampled_goals_, sample_goals_, num_sampled_goals_, samplerFunc_,
                 callback_, lock_, isSetup, threads, samplingVars, growingVars,
                 newState, added, args, callbackCalls>>

\* rewardWeightedGoal(weighted_goal)
RewardDouble(h) ==
  /\ ppc = "idle"
  /\ Len(weightCalls) < MaxRoundTrip
  /\ LET w == goals_priority_queue_[h].weight_
     IN  /\ weightCalls' =
              Append(weightCalls, [call |-> "reward", goal |-> h, w |-> w,
                                   reset |-> FALSE])
         /\ goals_priority_queue_' =
              IF DLess(w, DOne)
                THEN WithWeight(goals_priority_queue_, h, RewardedDouble(w))
                ELSE goals_priority_queue_
  /\ ret' = Void
  /\ UNCHANGED <<states_, terminateSamplingThread_, terminateGrowingRoadmapThread_,
                 samplingThread_, growingRoadmapThread_, samplingAttempts_,
                 max_sampled_goals_, sample_goals_, num_sampled_goals_, samplerFunc_,
                 callback_, lock_, isSetup, threads, samplingVars, growingVars, ppc,
                 newState, added, args, callbackCalls>>

\* the planner's penalize and reward calls on the weights of a stopped session
NextDouble ==
  \/ \E h \in Handles : PenalizeDouble_Weight(h)
  \/ Penalize_Flag \/ Penalize_Target
  \/ \E h \in Handles : RewardDouble(h)

SpecDouble == InitDouble /\ [][NextDouble]_vars

----------------------------------------------------------------------------
(* The round trips of penalize and reward, checked under SpecDouble *)

\* the last two calls were call1 then call2, on the same goal, and call2
\* has returned
RoundTrip(call1, call2) ==
  /\ ppc = "idle"
  /\ Len(weightCalls) >= 2
  /\ weightCalls[Len(weightCalls) - 1].call = call1
  /\ weightCalls[Len(weightCalls)].call = call2
  /\ weightCalls[Len(weightCalls) - 1].goal = weightCalls[Len(weightCalls)].goal

\* the weight the goal had before the round trip, the weight it has now and
\* whether the penalize of the round trip reset the region
Before == weightCalls[Len(weightCalls) - 1].w

After == Weight(weightCalls[Len(weightCalls)].goal)

PenalizeReset ==
  \E i \in {Len(weightCalls) - 1, Len(weightCalls)} :
    weightCalls[i].call = "penalize" /\ weightCalls[i].reset

\* x and y differ by at most 2^3 units of roundoff of y
DClose(x, y) ==
  \/ x = y
  \/ LET d == IF DLess(x, y) THEN DSub(y, x) ELSE DSub(x, y)
     IN  ~DLess(y, [m |-> d.m, e |-> d.e + MantissaBits - 3])

\* C21 as stated: penalize followed by reward on the same goal restores
\* exactly the weight w when the penalize reset no region; reward followed by
\* penalize restores exactly w when w < 0.5 and yields 0.5 when w is in
\* [0.5, 1].
C21_AsStated ==
  /\ (RoundTrip("penalize", "reward") /\ ~PenalizeReset) => After = Before
  /\ RoundTrip("reward", "penalize")
       => After = (IF DLess(Before, ResetWeightDouble) THEN Before
                   ELSE ResetWeightDouble)

\* C21 amended: when the penalize resets no region, penalize followed by
\* reward on the same goal restores the weight w up to the rounding of the
\* double divisions (within 2^-50 of w, relatively), and so does reward
\* followed by penalize when w < 0.5; reward followed by penalize yields
\* exactly 0.5 when w is in [0.5, 1]; a round trip whose penalize resets the
\* region leaves 0.5 or, after the reward, 1.0.
C21_RoundTrip ==
  /\ (RoundTrip("penalize", "reward") /\ ~PenalizeReset) => DClose(After, Before)
  /\ (RoundTrip("reward", "penalize") /\ ~PenalizeReset)
       => IF DLess(Before, ResetWeightDouble) THEN DClose(After, Before)
          ELSE After = ResetWeightDouble
  /\ (RoundTrip("reward", "penalize") /\ PenalizeReset) => After = ResetWeightDouble
  /\ (RoundTrip("penalize", "reward") /\ PenalizeReset) => After = DOne

\* 0.5 was penalized to 1/3 and rewarded: the weight is close to 0.5 and is
\* not 0.5
C21_Witness ==
  /\ RoundTrip("penalize", "reward")
  /\ ~PenalizeReset
  /\ Before = ResetWeightDouble
  /\ After # Before
  /\ DClose(After, Before)

----------------------------------------------------------------------------
(***************************************************************************)
(* sample_goals_ and max_sampled_goals_ without lock_.  The sampling       *)
(* thread tests the target and clears the flag in two accesses, and        *)
(* penalizeWeightedGoal ends with two stores; none of them is made under   *)
(* lock_ or through an atomic, so the other thread may see the two stores  *)
(* of penalizeWeightedGoal in either order.                                *)
(***************************************************************************)

\* if (num_sampled_goals_ >= max_sampled_goals_): the test
W_AfterTest ==
  /\ spc = "after"
  /\ spc' = IF num_sampled_goals_ >= max_sampled_goals_ THEN "after_store"
            ELSE "attempts"
  /\ UNCHANGED <<shared, plannerVars, growingVars, sampled_states,
                 increase_num_sampled_goals, prevsa>>

\* sample_goals_ = false;
W_AfterStore ==
  /\ spc = "after_store"
  /\ sample_goals_' = FALSE
  /\ spc' = "attempts"
  /\ UNCHANGED <<states_, goals_priority_queue_, terminateSamplingThread_,
                 terminateGrowingRoadmapThread_, samplingThread_,
                 growingRoadmapThread_, samplingAttempts_, max_sampled_goals_,
                 num_sampled_goals_, samplerFunc_, callback_, lock_, isSetup, threads,
                 plannerVars, growingVars, sampled_states,
                 increase_num_sampled_goals, prevsa>>

goalSamplingThreadUnlocked(batches) ==
  \/ W_Barrier \/ W_Wait \/ W_Begin \/ W_Loop \/ W_Check
  \/ \E batch \in batches : W_Sample(batch)
  \/ W_For \/ W_Add \/ W_AfterTest \/ W_AfterStore \/ W_Attempts \/ W_Exit

\* penalizeWeightedGoal: max_sampled_goals_ += 10; becoming visible before
\* sample_goals_ = true;
Penalize_TargetFirst ==
  /\ ppc = "penalize_flag"
  /\ max_sampled_goals_' = max_sampled_goals_ + TargetIncrement
  /\ ppc' = "penalize_flag_last"
  /\ UNCHANGED <<states_, goals_priority_queue_, terminateSamplingThread_,
                 terminateGrowingRoadmapThread_, samplingThread_,
                 growingRoadmapThread_, samplingAttempts_, sample_goals_,
                 num_sampled_goals_, samplerFunc_, callback_, lock_, isSetup, threads,
                 samplingVars, growingVars, plannerLocals, ret>>

\* penalizeWeightedGoal: sample_goals_ = true; becoming visible last
Penalize_FlagLast ==
  /\ ppc = "penalize_flag_last"
  /\ sample_goals_' = TRUE
  /\ ppc' = "idle"
  /\ ret' = Void
  /\ UNCHANGED <<states_, goals_priority_queue_, terminateSamplingThread_,
                 terminateGrowingRoadmapThread_, samplingThread_,
                 growingRoadmapThread_, samplingAttempts_, max_sampled_goals_,
                 num_sampled_goals_, samplerFunc_, callback_, lock_, isSetup, threads,
                 samplingVars, growingVars, plannerLocals>>

\* the sampling thread against one planner thread that calls penalize
NextUnlocked ==
  \/ goalSamplingThreadUnlocked(Batches({0}, {<<TRUE, TRUE>>, <<TRUE, FALSE>>}, InitWeights))
  \/ SetupDone
  \/ StartSampling
  \/ \E h \in Handles : Penalize_Weight(h)
  \/ Penalize_Flag \/ Penalize_Target
  \/ Penalize_TargetFirst \/ Penalize_FlagLast

SpecUnlocked == Init /\ [][NextUnlocked]_vars

----------------------------------------------------------------------------
(* The state handed to the callback against clear() *)

\* addStateIfDifferent called by the planner and, through the sampling
\* function, by the sampling thread, while the planner may call clear()
NextClear ==
  \/ goalSamplingThread(ThreadBatches)
  \/ samplerCallback
  \/ SetupDone
  \/ SetNewStateCallback
  \/ StartSampling
  \/ Clear_States \/ Clear_Queue
  \/ \E st \in Positions, minDistance \in MinDistances :
       AddStateIfDifferent_Locked(st, minDistance)
  \/ AddStateIfDifferent_Callback

SpecClear == Init /\ [][NextClear]_vars

\* C23 as stated: when addStateIfDifferent calls the callback, the state it
\* hands over is an element of the store: the store is not empty, and on the
\* planner thread the state is still at the place where it was inserted.
C23_AsStated ==
  [][/\ (W_CallbackReturn \/ W_CallbackStop) => states_ # <<>>
     /\ (AddStateIfDifferent_Callback /\ newState # 0)
          => (newState <= Len(states_) /\ states_[newState] = args[1])]_vars

====
